---- MODULE Spec2Model ----
(***************************************************************************)
(* A model of mail2pr: one run of main() (Worktree session + command       *)
(* loop), concurrent create_cache_directory calls on one cache root, and   *)
(* the pure function slugify_subject.                                      *)
(***************************************************************************)
EXTENDS Integers, Sequences, FiniteSets, TLC

\* ------------------------------------------------------------------ bounds
\* Commands the loop dispatches before only quit / EOF remain possible.
MaxCmds == 3

\* Commits the remote's base branch may point at when it is fetched.
Commits == {"c1", "c2"}

VARIABLES
    \* --- one run of main()
    pc,          \* position of main(); "done" and "raised" are its two ends
    constructed, \* the Worktree object exists and the with block was entered
    exc,         \* the exception in flight ("none" when there is none)
    calls,       \* history: the external tools invoked, with their outcome
    dispatched,  \* history: the commands the loop dispatched
    scratch,     \* self.path exists on disk
    worktree,    \* self.worktree (<scratch>/repo) exists on disk
    registered,  \* the repository holds a worktree registration for it
    baseRef,     \* refs/base-ml2pr/<slug>: <<>> or the commit chain it names
    branch,      \* ml2pr/<slug>: <<>> or the commit chain it names
    out,         \* what was printed
    cleanups,    \* number of invocations of cleanup()
    status,      \* exit status of the process
    prCalls,     \* history: the tools the latest pr() invoked, in order
    \* --- another session on the same repository, mail of the same slug
    opc,         \* its position in setup()
    ocalls,      \* history: the git steps it invoked, with their outcome
    oregistered, \* the repository holds a registration for its worktree
    \* --- concurrent calls of create_cache_directory(name), one name
    dirs,        \* the directories <<root, counter>> that exist
    parents,     \* the roots whose mail2pr directory exists
    env,         \* per call: which of XDG_CACHE_HOME / HOME is set
    cpc,         \* per call: its position
    counter,     \* per call: the local variable counter
    result,      \* per call: the path returned, <<>> before it returns
    made,        \* history, per call: the directories this call created
    before,      \* history, per call: the calls that had returned at its start
    \* --- slugify_subject
    subject,     \* the argument
    slug,        \* the value returned
    spc          \* "input" before the call, "slug" after it

mainVars == <<pc, constructed, exc, calls, dispatched, scratch, worktree, registered,
              baseRef, branch, out, cleanups, status, prCalls>>

otherVars == <<opc, ocalls, oregistered>>

cacheVars == <<dirs, parents, env, cpc, counter, result, made, before>>

slugVars == <<subject, slug, spc>>

vars == <<mainVars, otherVars, cacheVars, slugVars>>

\* ------------------------------------------------------------- utils.sh
\* What a subprocess can do: exit zero, exit non-zero, or fail to spawn.
Outcomes == {"zero", "nonzero", "oserror"}

sh_nocheck(outcome, check) ==
    IF outcome = "oserror"
    THEN [raised |-> "OSError", returncode |-> 1]
    ELSE [raised |-> "none", returncode |-> IF outcome = "zero" THEN 0 ELSE 1]

\* subprocess.run(command, check=check): raises CalledProcessError on a
\* non-zero exit only when check is set, OSError when the spawn fails.
sh(outcome, check) ==
    IF outcome = "oserror"
    THEN [raised |-> "OSError", returncode |-> 1]
    ELSE IF outcome = "nonzero" /\ check
    THEN [raised |-> "CalledProcessError", returncode |-> 1]
    ELSE [raised |-> "none", returncode |-> IF outcome = "zero" THEN 0 ELSE 1]

Call(tool, r) == [tool |-> tool, raised |-> r.raised, returncode |-> r.returncode]

Succeeded(c) == c.raised = "none" /\ c.returncode = 0

\* The commit chain a head of origin names: c2 is a child of c1.
History(c) == IF c = "c1" THEN <<"c1">> ELSE <<"c1", "c2">>

\* ------------------------------------------------------------- Init
MainInit ==
    /\ pc = "construct"
    /\ constructed = FALSE
    /\ exc = "none"
    /\ calls = <<>>
    /\ dispatched = <<>>
    /\ scratch = FALSE
    /\ worktree = FALSE
    /\ registered = FALSE
    \* the branch and the base ref outlive a run: an earlier run on a mail of
    \* the same slug may have left them behind
    /\ \E old \in {<<>>} \cup {History(c) : c \in Commits} :
          /\ baseRef = old
          /\ branch \in {old, IF old = <<>> THEN <<>> ELSE Append(old, "patch")}
    /\ out = <<>>
    /\ cleanups = 0
    /\ status = "running"
    /\ prCalls = <<>>

\* ------------------------------------------------------ Worktree.__init__
Construct_no_mkdir ==
    /\ pc = "construct"
    /\ \E o \in {"ok", "cache_fails"} :
          /\ scratch' = (o # "cache_fails")
          /\ worktree' = FALSE
          /\ constructed' = (o = "ok")
          /\ IF o = "ok"
             THEN pc' = "fetch" /\ UNCHANGED <<exc, status>>
             ELSE pc' = "raised" /\ exc' = "OSError" /\ status' = "nonzero"
    /\ UNCHANGED <<cacheVars, slugVars, otherVars, prCalls>>
    /\ UNCHANGED <<calls, dispatched, registered, baseRef, branch, out, cleanups>>

\* create_cache_directory creates self.path, then self.worktree.mkdir();
\* either mkdir may raise, and the with statement is then never entered.
Construct ==
    /\ pc = "construct"
    /\ \E o \in {"ok", "cache_fails", "mkdir_fails"} :
          /\ scratch' = (o # "cache_fails")
          /\ worktree' = (o = "ok")
          /\ constructed' = (o = "ok")
          /\ IF o = "ok"
             THEN pc' = "fetch" /\ UNCHANGED <<exc, status>>
             ELSE pc' = "raised" /\ exc' = "OSError" /\ status' = "nonzero"
    /\ UNCHANGED <<cacheVars, slugVars, otherVars, prCalls>>
    /\ UNCHANGED <<calls, dispatched, registered, baseRef, branch, out, cleanups>>

\* ------------------------------------------------------ Worktree.setup
Fetch_unwrapped ==
    /\ pc = "fetch"
    /\ \E o \in Outcomes :
          LET r == sh(o, TRUE) IN
          /\ calls' = Append(calls, Call("fetch", r))
          /\ IF r.raised = "none"
             THEN /\ \E c \in Commits : baseRef' = History(c)
                  /\ pc' = "branch"
                  /\ UNCHANGED exc
             ELSE /\ exc' = r.raised
                  /\ pc' = "except"
                  /\ UNCHANGED baseRef
    /\ UNCHANGED <<cacheVars, slugVars, otherVars, prCalls>>
    /\ UNCHANGED <<constructed, dispatched, scratch, worktree, registered,
                   branch, out, cleanups, status>>

\* git fetch origin <base>:refs/base-<branch_name>
Fetch ==
    /\ pc = "fetch"
    /\ \E o \in Outcomes :
          LET r == sh(o, TRUE) IN
          /\ calls' = Append(calls, Call("fetch", r))
          /\ IF r.raised = "none"
             THEN /\ \E c \in Commits : baseRef' = History(c)
                  /\ pc' = "branch"
                  /\ UNCHANGED exc
             ELSE /\ exc' = "GitFetchFailed"
                  /\ pc' = "except"
                  /\ UNCHANGED baseRef
    /\ UNCHANGED <<cacheVars, slugVars, otherVars, prCalls>>
    /\ UNCHANGED <<constructed, dispatched, scratch, worktree, registered, branch, out,
                   cleanups, status>>

\* git branch -f <branch_name> refs/base-<branch_name>: not wrapped
Branch ==
    /\ pc = "branch"
    /\ \E o \in Outcomes :
          LET r == sh(o, TRUE) IN
          /\ calls' = Append(calls, Call("branch", r))
          /\ IF r.raised = "none"
             THEN /\ branch' = baseRef
                  /\ pc' = "wtadd"
                  /\ UNCHANGED exc
             ELSE /\ exc' = r.raised
                  /\ pc' = "except"
                  /\ UNCHANGED branch
    /\ UNCHANGED <<cacheVars, slugVars, otherVars, prCalls>>
    /\ UNCHANGED <<constructed, dispatched, scratch, worktree, registered, baseRef, out,
                   cleanups, status>>

\* git worktree add refuses a branch that another worktree has checked out
worktree_add(o, checkedOut) == IF checkedOut /\ o = "zero" THEN "nonzero" ELSE o

\* git worktree add <worktree> <branch_name>
WorktreeAdd ==
    /\ pc = "wtadd"
    /\ \E o \in Outcomes :
          LET r == sh(worktree_add(o, oregistered), TRUE) IN
          /\ calls' = Append(calls, Call("worktree add", r))
          /\ IF r.raised = "none"
             THEN /\ registered' = TRUE
                  \* git creates the directory when it is missing and
                  \* accepts an existing empty one
                  /\ worktree' = TRUE
                  /\ pc' = "am"
                  /\ UNCHANGED exc
             ELSE /\ exc' = "GitFetchFailed"
                  /\ pc' = "except"
                  /\ UNCHANGED <<registered, worktree>>
    /\ UNCHANGED <<cacheVars, slugVars, otherVars, prCalls>>
    /\ UNCHANGED <<constructed, dispatched, scratch, baseRef, branch, out,
                   cleanups, status>>

\* git am without cwd=self.worktree: the commit does not land on the branch
Am_elsewhere ==
    /\ pc = "am"
    /\ \E o \in Outcomes :
          LET r == sh(o, TRUE) IN
          /\ calls' = Append(calls, Call("am", r))
          /\ IF r.raised = "none"
             THEN /\ UNCHANGED branch
                  /\ pc' = "loop"
                  /\ UNCHANGED exc
             ELSE /\ exc' = "GitAMFailed"
                  /\ pc' = "except"
                  /\ UNCHANGED branch
    /\ UNCHANGED <<cacheVars, slugVars, otherVars, prCalls>>
    /\ UNCHANGED <<constructed, dispatched, scratch, worktree, registered,
                   baseRef, out, cleanups, status>>

Am_unchecked ==
    /\ pc = "am"
    /\ \E o \in Outcomes :
          LET r == sh(o, FALSE) IN
          /\ calls' = Append(calls, Call("am", r))
          /\ IF r.raised = "none"
             THEN /\ branch' = Append(branch, "patch")
                  /\ pc' = "loop"
                  /\ UNCHANGED exc
             ELSE /\ exc' = "GitAMFailed"
                  /\ pc' = "except"
                  /\ UNCHANGED branch
    /\ UNCHANGED <<cacheVars, slugVars, otherVars, prCalls>>
    /\ UNCHANGED <<constructed, dispatched, scratch, worktree, registered,
                   baseRef, out, cleanups, status>>

\* git am --message-id - (in the worktree, the mail on stdin)
Am ==
    /\ pc = "am"
    /\ \E o \in Outcomes :
          LET r == sh(o, TRUE) IN
          /\ calls' = Append(calls, Call("am", r))
          /\ IF r.raised = "none"
             THEN /\ branch' = Append(branch, "patch")
                  /\ pc' = "loop"
                  /\ UNCHANGED exc
             ELSE /\ exc' = "GitAMFailed"
                  /\ pc' = "except"
                  /\ UNCHANGED branch
    /\ UNCHANGED <<cacheVars, slugVars, otherVars, prCalls>>
    /\ UNCHANGED <<constructed, dispatched, scratch, worktree, registered, baseRef, out,
                   cleanups, status>>

\* ------------------------------------------------------ Shell (cmd.Cmd)
CanDispatch == pc = "loop" /\ Len(dispatched) < MaxCmds

\* A command that is one checked tool invocation.
Checked(cmd, tool, prints) ==
    /\ CanDispatch
    /\ dispatched' = Append(dispatched, cmd)
    /\ \E o \in Outcomes :
          LET r == sh(o, TRUE) IN
          /\ calls' = Append(calls, Call(tool, r))
          /\ IF r.raised = "none"
             THEN /\ pc' = "loop"
                  /\ out' = IF prints THEN Append(out, "log") ELSE out
                  /\ UNCHANGED exc
             ELSE /\ exc' = r.raised
                  /\ pc' = "except"
                  /\ UNCHANGED out
    /\ UNCHANGED <<cacheVars, slugVars, otherVars, prCalls>>
    /\ UNCHANGED <<constructed, scratch, worktree, registered, baseRef, branch, cleanups,
                   status>>

do_eval == Checked("eval", "nix-instantiate", FALSE)

do_build == Checked("build", "nix-build", FALSE)

do_review == Checked("review", "nixpkgs-review", FALSE)

do_log == Checked("log", "log", TRUE)

\* bash run with check=True
do_shell_checked ==
    /\ CanDispatch
    /\ dispatched' = Append(dispatched, "shell")
    /\ \E o \in Outcomes :
          LET r == sh(o, TRUE) IN
          /\ calls' = Append(calls, Call("bash", r))
          /\ IF r.raised = "none"
             THEN pc' = "loop" /\ UNCHANGED exc
             ELSE exc' = r.raised /\ pc' = "except"
    /\ UNCHANGED <<cacheVars, slugVars, otherVars, prCalls>>
    /\ UNCHANGED <<constructed, scratch, worktree, registered, baseRef, branch, out,
                   cleanups, status>>

\* bash, check=False: a non-zero exit is no error
do_shell ==
    /\ CanDispatch
    /\ dispatched' = Append(dispatched, "shell")
    /\ \E o \in Outcomes :
          LET r == sh(o, FALSE) IN
          /\ calls' = Append(calls, Call("bash", r))
          /\ IF r.raised = "none"
             THEN pc' = "loop" /\ UNCHANGED exc
             ELSE exc' = r.raised /\ pc' = "except"
    /\ UNCHANGED <<cacheVars, slugVars, otherVars, prCalls>>
    /\ UNCHANGED <<constructed, scratch, worktree, registered, baseRef, branch, out,
                   cleanups, status>>

do_pr_unchecked_log ==
    /\ CanDispatch
    /\ dispatched' = Append(dispatched, "pr")
    /\ \E o \in Outcomes :
          LET r == sh(o, FALSE) IN
          /\ calls' = Append(calls, Call("log", r))
          /\ prCalls' = <<Call("log", r)>>
          /\ IF r.raised = "none"
             THEN pc' = "pr_push" /\ UNCHANGED exc
             ELSE exc' = r.raised /\ pc' = "except"
    /\ UNCHANGED <<cacheVars, slugVars, otherVars>>
    /\ UNCHANGED <<constructed, scratch, worktree, registered, baseRef, branch, out,
                   cleanups, status>>

\* Worktree.pr, first statement: log = self.log().strip()
do_pr ==
    /\ CanDispatch
    /\ dispatched' = Append(dispatched, "pr")
    /\ \E o \in Outcomes :
          LET r == sh(o, TRUE) IN
          /\ calls' = Append(calls, Call("log", r))
          /\ prCalls' = <<Call("log", r)>>
          /\ IF r.raised = "none"
             THEN pc' = "pr_push" /\ UNCHANGED exc
             ELSE exc' = r.raised /\ pc' = "except"
    /\ UNCHANGED <<cacheVars, slugVars, otherVars>>
    /\ UNCHANGED <<constructed, scratch, worktree, registered, baseRef, branch, out,
                   cleanups, status>>

pr_push_never_aborts(r) == FALSE

\* Worktree.pr: if res.returncode != 0: print("Failed to push?!"); return
pr_push_aborts(r) == r.returncode # 0

\* Worktree.pr: git push -f, check=False
pr_push ==
    /\ pc = "pr_push"
    /\ \E o \in Outcomes :
          LET r == sh(o, FALSE) IN
          /\ calls' = Append(calls, Call("push", r))
          /\ prCalls' = Append(prCalls, Call("push", r))
          /\ IF r.raised # "none"
             THEN exc' = r.raised /\ pc' = "except" /\ UNCHANGED out
             ELSE IF pr_push_aborts(r)
             THEN /\ out' = Append(out, "Failed to push?!")
                  /\ pc' = "loop"
                  /\ UNCHANGED exc
             ELSE pc' = "pr_hub" /\ UNCHANGED <<exc, out>>
    /\ UNCHANGED <<cacheVars, slugVars, otherVars>>
    /\ UNCHANGED <<constructed, dispatched, scratch, worktree, registered, baseRef, branch,
                   cleanups, status>>

\* Worktree.pr: hub pull-request, check=False
pr_hub ==
    /\ pc = "pr_hub"
    /\ \E o \in Outcomes :
          LET r == sh(o, FALSE) IN
          /\ calls' = Append(calls, Call("hub", r))
          /\ prCalls' = Append(prCalls, Call("hub", r))
          /\ IF r.raised # "none"
             THEN exc' = r.raised /\ pc' = "except" /\ UNCHANGED out
             ELSE /\ out' = IF r.returncode # 0
                            THEN Append(out, "Failed to open PR") ELSE out
                  /\ pc' = "loop"
                  /\ UNCHANGED exc
    /\ UNCHANGED <<cacheVars, slugVars, otherVars>>
    /\ UNCHANGED <<constructed, dispatched, scratch, worktree, registered, baseRef, branch,
                   cleanups, status>>

\* do_quit returns True, do_EOF = do_quit: cmdloop returns
do_quit ==
    /\ pc = "loop"
    /\ \E c \in {"quit", "EOF"} : dispatched' = Append(dispatched, c)
    /\ pc' = "exit"
    /\ UNCHANGED <<cacheVars, slugVars, otherVars, prCalls>>
    /\ UNCHANGED <<constructed, exc, calls, scratch, worktree, registered, baseRef, branch,
                   out, cleanups, status>>

\* ------------------------------------------------------ main
Except_narrow ==
    /\ pc = "except"
    /\ IF exc = "GitAMFailed"
       THEN out' = Append(out, exc) /\ exc' = "none"
       ELSE UNCHANGED <<out, exc>>
    /\ pc' = "exit"
    /\ UNCHANGED <<cacheVars, slugVars, otherVars, prCalls>>
    /\ UNCHANGED <<constructed, calls, dispatched, scratch, worktree,
                   registered, baseRef, branch, cleanups, status>>

\* except Exception as e: print(e)
Except ==
    /\ pc = "except"
    /\ out' = Append(out, exc)
    /\ exc' = "none"
    /\ pc' = "exit"
    /\ UNCHANGED <<cacheVars, slugVars, otherVars, prCalls>>
    /\ UNCHANGED <<constructed, calls, dispatched, scratch, worktree, registered, baseRef,
                   branch, cleanups, status>>

Exit_pass ==
    /\ pc = "exit"
    /\ IF exc = "none"
       THEN pc' = "alldone" /\ UNCHANGED status
       ELSE pc' = "raised" /\ status' = "nonzero"
    /\ UNCHANGED <<cacheVars, slugVars, otherVars, prCalls>>
    /\ UNCHANGED <<constructed, exc, calls, dispatched, scratch, worktree,
                   registered, baseRef, branch, out, cleanups>>

\* Worktree.__exit__: self.cleanup(); returns None, so an exception in
\* flight is re-raised once cleanup has returned.
Exit ==
    /\ pc = "exit"
    /\ cleanups' = cleanups + 1
    /\ pc' = "rmtree"
    /\ UNCHANGED <<cacheVars, slugVars, otherVars, prCalls>>
    /\ UNCHANGED <<constructed, exc, calls, dispatched, scratch, worktree, registered,
                   baseRef, branch, out, status>>

rmtree_ignore_errors ==
    /\ pc = "rmtree"
    /\ \/ /\ scratch
          /\ scratch' = FALSE
          /\ worktree' = FALSE
       \/ /\ scratch' = scratch
          /\ worktree' \in {worktree, FALSE}
    /\ pc' = "prune"
    /\ UNCHANGED <<cacheVars, slugVars, otherVars, prCalls>>
    /\ UNCHANGED <<constructed, exc, status, calls, dispatched, registered,
                   baseRef, branch, out, cleanups>>

\* Worktree.cleanup: shutil.rmtree(str(self.path)); when it raises, part of
\* the tree may already be gone and the exception leaves main().
rmtree ==
    /\ pc = "rmtree"
    /\ \/ /\ scratch
          /\ scratch' = FALSE
          /\ worktree' = FALSE
          /\ pc' = "prune"
          /\ UNCHANGED <<exc, status>>
       \/ /\ scratch' = scratch
          /\ worktree' \in {worktree, FALSE}
          /\ exc' = "OSError"
          /\ pc' = "raised"
          /\ status' = "nonzero"
    /\ UNCHANGED <<cacheVars, slugVars, otherVars, prCalls>>
    /\ UNCHANGED <<constructed, calls, dispatched, registered, baseRef, branch, out,
                   cleanups>>

\* git worktree prune drops the registrations whose directory is gone.
worktree_prune(reg, dir) == reg /\ dir

prune_deletes_branch ==
    /\ pc = "prune"
    /\ \E o \in Outcomes :
          LET r == sh(o, TRUE) IN
          /\ calls' = Append(calls, Call("worktree prune", r))
          /\ IF r.raised = "none"
             THEN /\ registered' = worktree_prune(registered, worktree)
                  /\ branch' = <<>>
                  /\ IF exc = "none"
                     THEN pc' = "alldone" /\ UNCHANGED <<exc, status>>
                     ELSE pc' = "raised" /\ status' = "nonzero"
                          /\ UNCHANGED exc
             ELSE /\ exc' = r.raised
                  /\ pc' = "raised"
                  /\ status' = "nonzero"
                  /\ UNCHANGED <<registered, branch>>
    /\ UNCHANGED <<cacheVars, slugVars, otherVars, prCalls>>
    /\ UNCHANGED <<constructed, dispatched, scratch, worktree, baseRef, out,
                   cleanups>>

\* Worktree.cleanup: sh(["git", "-C", repo_path, "worktree", "prune"])
prune ==
    /\ pc = "prune"
    /\ \E o \in Outcomes :
          LET r == sh(o, TRUE) IN
          /\ calls' = Append(calls, Call("worktree prune", r))
          /\ IF r.raised = "none"
             THEN /\ registered' = worktree_prune(registered, worktree)
                  /\ IF exc = "none"
                     THEN pc' = "alldone" /\ UNCHANGED <<exc, status>>
                     ELSE pc' = "raised" /\ status' = "nonzero"
                          /\ UNCHANGED exc
             ELSE /\ exc' = r.raised
                  /\ pc' = "raised"
                  /\ status' = "nonzero"
                  /\ UNCHANGED registered
    /\ UNCHANGED <<cacheVars, slugVars, otherVars, prCalls>>
    /\ UNCHANGED <<constructed, dispatched, scratch, worktree, baseRef, branch, out,
                   cleanups>>

\* print("all done"); main() returns and the interpreter exits with 0
AllDone ==
    /\ pc = "alldone"
    /\ out' = Append(out, "all done")
    /\ pc' = "done"
    /\ status' = "zero"
    /\ UNCHANGED <<cacheVars, slugVars, otherVars, prCalls>>
    /\ UNCHANGED <<constructed, exc, calls, dispatched, scratch, worktree, registered,
                   baseRef, branch, cleanups>>


\* ------------------------------------------- utils.create_cache_directory
\* Concurrent calls, all with the same name.
NumCalls == 2

\* Counters 0 .. MaxPre-1 may name directories left by earlier runs.
MaxPre == 2

Calls == 1..NumCalls

\* XDG_CACHE_HOME set; else HOME set; else neither.
Envs == {"xdg", "home", "none"}

\* xdg_cache: Path(XDG_CACHE_HOME) or Path(HOME)/.cache
Root(e) == e

\* final_name = name if counter == 0 else f"{name}-{counter}";
\* cache_home = xdg_cache.joinpath("mail2pr", final_name)
cache_home(e, n) == <<Root(e), n>>

os_mkdir_exist_ok(path, ds, ps) ==
    IF path[1] \notin ps THEN "FileNotFoundError" ELSE "created"

\* os.mkdir(path): atomic; fails when the parent is missing or the path exists
os_mkdir(path, ds, ps) ==
    IF path[1] \notin ps THEN "FileNotFoundError"
    ELSE IF path \in ds THEN "FileExistsError"
    ELSE "created"

CacheInit ==
    /\ \E pre \in SUBSET {cache_home("xdg", n) : n \in 0..(MaxPre - 1)} :
          /\ dirs = pre
          \* <root>/mail2pr exists where a directory was left, and may
          \* exist on both roots
          /\ parents \in {{d[1] : d \in pre}, {"xdg", "home"}}
    /\ env \in [Calls -> Envs]
    /\ cpc = [p \in Calls |-> "start"]
    /\ counter = [p \in Calls |-> 0]
    /\ result = [p \in Calls |-> <<>>]
    /\ made = [p \in Calls |-> {}]
    /\ before = [p \in Calls |-> {}]

CacheIdle ==
    /\ dirs = {}
    /\ parents = {}
    /\ env = <<>>
    /\ cpc = <<>>
    /\ counter = <<>>
    /\ result = <<>>
    /\ made = <<>>
    /\ before = <<>>

\* The temporary directories TemporaryDirectory(prefix=name) may pick.
TempNames == {<<"tmp", k>> : k \in Calls}

\* Lines 52-63: the cache root; without XDG_CACHE_HOME and HOME the call
\* returns a fresh TemporaryDirectory.
cc_start(p) ==
    /\ cpc[p] = "start"
    /\ before' = [before EXCEPT ![p] = {q \in Calls : cpc[q] = "done"}]
    /\ IF env[p] = "none"
       THEN \E t \in TempNames \ dirs :
               /\ dirs' = dirs \cup {t}
               /\ made' = [made EXCEPT ![p] = {t}]
               /\ result' = [result EXCEPT ![p] = t]
               /\ cpc' = [cpc EXCEPT ![p] = "done"]
               /\ UNCHANGED counter
       ELSE /\ counter' = [counter EXCEPT ![p] = 0]
            /\ cpc' = [cpc EXCEPT ![p] = "mkdir"]
            /\ UNCHANGED <<dirs, made, result>>
    /\ UNCHANGED <<parents, env>>
    /\ UNCHANGED <<mainVars, otherVars, slugVars>>

\* One iteration of the while loop: cache_home.mkdir(parents=True) tries
\* os.mkdir; FileExistsError is caught by the loop (counter += 1), a missing
\* parent sends Path.mkdir to create the parents, any other error propagates.
cc_mkdir(p) ==
    /\ cpc[p] = "mkdir"
    /\ LET path == cache_home(env[p], counter[p])
           r == os_mkdir(path, dirs, parents) IN
       \/ /\ r = "created"
          /\ dirs' = dirs \cup {path}
          /\ made' = [made EXCEPT ![p] = @ \cup ({path} \ dirs)]
          /\ result' = [result EXCEPT ![p] = path]
          /\ cpc' = [cpc EXCEPT ![p] = "done"]
          /\ UNCHANGED counter
       \/ /\ r = "FileExistsError"
          /\ counter' = [counter EXCEPT ![p] = @ + 1]
          /\ UNCHANGED <<dirs, made, result, cpc>>
       \/ /\ r = "FileNotFoundError"
          /\ cpc' = [cpc EXCEPT ![p] = "parents"]
          /\ UNCHANGED <<dirs, made, result, counter>>
       \/ /\ cpc' = [cpc EXCEPT ![p] = "raised"]
          /\ UNCHANGED <<dirs, made, result, counter>>
    /\ UNCHANGED <<parents, env, before>>
    /\ UNCHANGED <<mainVars, otherVars, slugVars>>

\* Path.mkdir, parents=True: self.parent.mkdir(parents=True, exist_ok=True),
\* then os.mkdir is tried again.
cc_parents(p) ==
    /\ cpc[p] = "parents"
    /\ parents' = parents \cup {Root(env[p])}
    /\ cpc' = [cpc EXCEPT ![p] = "mkdir"]
    /\ UNCHANGED <<dirs, env, counter, result, made, before>>
    /\ UNCHANGED <<mainVars, otherVars, slugVars>>

\* ------------------------------------------------- utils.slugify_subject
\* Strings are sequences of characters.  Longest subject drawn.
MaxLen == 4

\* One representative per class of character the function tells apart:
\* the letters of the reply tokens, another letter, the dot, the colon, the
\* hyphen, the brackets, a blank and a newline.
Alphabet == {"R", "e", "r", "a", ".", ":", "-", "[", "]", " ", "\n"}

Strings == UNION {[1..n -> Alphabet] : n \in 0..MaxLen}

\* str.strip / str.lstrip without argument remove whitespace
Whitespace == {" ", "\n"}

\* the class [0-9a-zA-Z\.] within Alphabet
Allowed == {"R", "e", "r", "a", "."}

RECURSIVE lstrip_chars(_, _)
\* str.lstrip(chars): drop leading characters that are in the set chars
lstrip_chars(s, chars) ==
    IF s # <<>> /\ Head(s) \in chars THEN lstrip_chars(Tail(s), chars) ELSE s

RECURSIVE rstrip_chars(_, _)
rstrip_chars(s, chars) ==
    IF s # <<>> /\ s[Len(s)] \in chars
    THEN rstrip_chars(SubSeq(s, 1, Len(s) - 1), chars)
    ELSE s

lstrip(s) == lstrip_chars(s, Whitespace)

strip(s) == rstrip_chars(lstrip_chars(s, Whitespace), Whitespace)

\* Index of the first c in s, 0 when there is none.
FirstIndex(s, c) ==
    IF \E i \in 1..Len(s) : s[i] = c
    THEN CHOOSE i \in 1..Len(s) : s[i] = c /\ \A j \in 1..(i - 1) : s[j] # c
    ELSE 0

\* re.match(r"^\[[^\]]+\](?P<subject>.+)$", s): "[", one or more characters
\* other than "]", "]", then one or more characters other than a newline up
\* to the end of the string or to a newline that ends it.
bracket_match(s) ==
    LET k == FirstIndex(s, "]")
        rest == SubSeq(s, k + 1, Len(s))
        body == IF rest # <<>> /\ rest[Len(rest)] = "\n"
                THEN SubSeq(rest, 1, Len(rest) - 1) ELSE rest
    IN  [matched |-> /\ s # <<>>
                     /\ s[1] = "["
                     /\ k >= 3
                     /\ body # <<>>
                     /\ \A i \in 1..Len(body) : body[i] # "\n",
         subject |-> body]

\* re.sub(r"[^0-9a-zA-Z\.]", "-", s)
sub_disallowed(s) == [i \in 1..Len(s) |-> IF s[i] \in Allowed THEN s[i] ELSE "-"]

RECURSIVE collapse_pairs(_)
collapse_pairs(s) ==
    IF Len(s) < 2 THEN s
    ELSE IF s[1] = "-" /\ s[2] = "-"
    THEN <<"-">> \o collapse_pairs(SubSeq(s, 3, Len(s)))
    ELSE <<s[1]>> \o collapse_pairs(Tail(s))

RECURSIVE collapse(_)
\* re.sub(r"--+", "-", s): every run of two or more hyphens becomes one
collapse(s) ==
    IF Len(s) < 2 THEN s
    ELSE IF s[1] = "-" /\ s[2] = "-"
    THEN collapse(Tail(s))
    ELSE <<s[1]>> \o collapse(Tail(s))

\* re.sub(r"^-", "", s)
trim_leading(s) == IF s # <<>> /\ s[1] = "-" THEN Tail(s) ELSE s

\* re.sub(r"-$", "", s); s holds no newline here, so $ is the end of s
trim_trailing(s) ==
    IF s # <<>> /\ s[Len(s)] = "-" THEN SubSeq(s, 1, Len(s) - 1) ELSE s

slugify_subject(s0) ==
    LET s1 == strip(s0)
        s2 == lstrip(lstrip_chars(s1, {"R", "e", ":"}))
        s3 == lstrip(lstrip_chars(s2, {"r", "e", ":"}))
        s4 == lstrip(lstrip_chars(s3, {":"}))
        m  == bracket_match(s4)
        s5 == IF s4 # <<>> /\ s4[1] = "[" /\ m.matched
              THEN strip(m.subject) ELSE s4
    IN  trim_trailing(trim_leading(collapse(sub_disallowed(s5))))

SlugInit ==
    /\ subject \in Strings
    /\ slug = <<>>
    /\ spc = "input"

\* slug = slugify_subject(subject)
Slugify ==
    /\ spc = "input"
    /\ slug' = slugify_subject(subject)
    /\ spc' = "slug"
    /\ UNCHANGED subject
    /\ UNCHANGED <<mainVars, otherVars, cacheVars>>

MainIdle ==
    /\ pc = "idle"
    /\ constructed = FALSE
    /\ exc = "none"
    /\ calls = <<>>
    /\ dispatched = <<>>
    /\ scratch = FALSE
    /\ worktree = FALSE
    /\ registered = FALSE
    /\ baseRef = <<>>
    /\ branch = <<>>
    /\ out = <<>>
    /\ cleanups = 0
    /\ status = "running"
    /\ prCalls = <<>>

SlugIdle ==
    /\ subject = <<>>
    /\ slug = <<>>
    /\ spc = "idle"

\* ------------------------------------------------------ a second session
\* Another invocation of the tool on the same repository with a mail of the
\* same slug: its setup() works on the same refs/base-<branch_name> and
\* <branch_name>.  It is followed through the four steps of setup(); a step
\* that raises ends them.
sessionVars == <<pc, constructed, exc, calls, dispatched, scratch, worktree, registered,
                 out, cleanups, status, prCalls>>

OtherInit ==
    /\ opc = "fetch"
    /\ ocalls = <<>>
    /\ oregistered = FALSE

\* git fetch origin <base>:refs/base-<branch_name>: a destination outside
\* refs/heads is updated to whatever the other session's base names
OtherFetch ==
    /\ opc = "fetch"
    /\ \E o \in Outcomes :
          LET r == sh(o, TRUE) IN
          /\ ocalls' = Append(ocalls, Call("fetch", r))
          /\ IF r.raised = "none"
             THEN /\ \E c \in Commits : baseRef' = History(c)
                  /\ opc' = "branch"
             ELSE /\ opc' = "failed"
                  /\ UNCHANGED baseRef
    /\ UNCHANGED <<sessionVars, cacheVars, slugVars, branch, oregistered>>

\* git branch -f <branch_name> refs/base-<branch_name>: whether git refuses
\* a branch checked out in another worktree depends on its version, so the
\* step may fail or move the branch
OtherBranch ==
    /\ opc = "branch"
    /\ \E o \in Outcomes :
          LET r == sh(o, TRUE) IN
          /\ ocalls' = Append(ocalls, Call("branch", r))
          /\ IF r.raised = "none"
             THEN /\ branch' = baseRef
                  /\ opc' = "wtadd"
             ELSE /\ opc' = "failed"
                  /\ UNCHANGED branch
    /\ UNCHANGED <<sessionVars, cacheVars, slugVars, baseRef, oregistered>>

\* git worktree add <worktree> <branch_name>
OtherWorktreeAdd ==
    /\ opc = "wtadd"
    /\ \E o \in Outcomes :
          LET r == sh(worktree_add(o, registered), TRUE) IN
          /\ ocalls' = Append(ocalls, Call("worktree add", r))
          /\ IF r.raised = "none"
             THEN /\ oregistered' = TRUE
                  /\ opc' = "am"
             ELSE /\ opc' = "failed"
                  /\ UNCHANGED oregistered
    /\ UNCHANGED <<sessionVars, cacheVars, slugVars, baseRef, branch>>

\* git am --message-id - in the other session's worktree
OtherAm ==
    /\ opc = "am"
    /\ \E o \in Outcomes :
          LET r == sh(o, TRUE) IN
          /\ ocalls' = Append(ocalls, Call("am", r))
          /\ IF r.raised = "none"
             THEN /\ branch' = Append(branch, "otherpatch")
                  /\ opc' = "ready"
             ELSE /\ opc' = "failed"
                  /\ UNCHANGED branch
    /\ UNCHANGED <<sessionVars, cacheVars, slugVars, baseRef, oregistered>>

OtherIdle ==
    /\ opc = "idle"
    /\ ocalls = <<>>
    /\ oregistered = FALSE

Init == MainInit /\ OtherIdle /\ CacheIdle /\ SlugIdle

Next ==
    \/ Construct
    \/ Fetch
    \/ Branch
    \/ WorktreeAdd
    \/ Am
    \/ do_eval
    \/ do_build
    \/ do_shell
    \/ do_review
    \/ do_log
    \/ do_pr
    \/ pr_push
    \/ pr_hub
    \/ do_quit
    \/ Except
    \/ Exit
    \/ rmtree
    \/ prune
    \/ AllDone

Spec == Init /\ [][Next]_vars

CacheNext == \E p \in Calls : cc_start(p) \/ cc_mkdir(p) \/ cc_parents(p)

InitCache == MainIdle /\ OtherIdle /\ CacheInit /\ SlugIdle

SpecCache == InitCache /\ [][CacheNext]_vars

SlugNext == Slugify

InitSlug == MainIdle /\ OtherIdle /\ CacheIdle /\ SlugInit

SpecSlug == InitSlug /\ [][SlugNext]_vars

\* one run of main() with the setup() of a second session interleaved
SharedNext ==
    \/ Construct
    \/ Fetch
    \/ Branch
    \/ WorktreeAdd
    \/ Am
    \/ do_log
    \/ do_quit
    \/ Except
    \/ Exit
    \/ rmtree
    \/ prune
    \/ AllDone
    \/ OtherFetch
    \/ OtherBranch
    \/ OtherWorktreeAdd
    \/ OtherAm

InitShared == MainInit /\ OtherInit /\ CacheIdle /\ SlugIdle

SpecShared == InitShared /\ [][SharedNext]_vars

\* ==================================================================
\* Properties
\* ==================================================================
Last(q) == q[Len(q)]

Terminal == {"done", "raised"}

SetupOrder == <<"fetch", "branch", "worktree add", "am">>

SetupTools == {SetupOrder[i] : i \in 1..Len(SetupOrder)}

\* setup() raised: one of its git steps did not succeed
SetupRaised ==
    \E i \in 1..Len(calls) : calls[i].tool \in SetupTools /\ ~Succeeded(calls[i])

SetupCompleted ==
    /\ Len(calls) >= Len(SetupOrder)
    /\ \A i \in 1..Len(SetupOrder) :
          calls[i].tool = SetupOrder[i] /\ Succeeded(calls[i])

FetchFailed ==
    calls # <<>> /\ calls[1].tool = "fetch" /\ ~Succeeded(calls[1])

CleanupSucceeded ==
    /\ calls # <<>>
    /\ Last(calls).tool = "worktree prune"
    /\ Succeeded(Last(calls))

\* C1: in a run of main() that constructed the Worktree, cleanup() is
\* invoked at most once, only after setup() and the command loop have
\* ended, and it has been invoked exactly once whenever main() has left the
\* with block (by returning or by raising), whatever failed before.
C1_CleanupExactlyOnce ==
    /\ cleanups <= 1
    /\ cleanups = 1 =>
          constructed /\ pc \in {"rmtree", "prune", "alldone", "done", "raised"}
    /\ (constructed /\ pc \in {"alldone", "done", "raised"}) => cleanups = 1

C1_Witness ==
    /\ pc \in Terminal
    /\ cleanups = 1
    /\ Len(dispatched) = 1
    /\ calls[Len(calls) - 1].tool = "nix-build"
    /\ ~Succeeded(calls[Len(calls) - 1])

\* C2: the git steps of setup() are invoked in the order fetch, branch -f,
\* worktree add, am, and a step is invoked only after every earlier step
\* succeeded.
C2_SetupOrder ==
    \A i \in 1..Len(calls) :
        calls[i].tool \in SetupTools =>
            /\ i <= Len(SetupOrder)
            /\ calls[i].tool = SetupOrder[i]
            /\ \A j \in 1..(i - 1) : Succeeded(calls[j])

C2_Witness ==
    /\ Len(calls) >= 4
    /\ calls[4].tool = "am"
    /\ ~Succeeded(calls[4])
    /\ pc = "except"

\* C3: when the fetch step fails, setup() raises GitFetchFailed (main()
\* prints it) and none of branch -f, worktree add, am is invoked.
C3_FetchFailureStopsSetup ==
    FetchFailed =>
        /\ \A i \in 2..Len(calls) : calls[i].tool \notin SetupTools
        /\ IF pc = "except"
           THEN exc = "GitFetchFailed"
           ELSE out # <<>> /\ out[1] = "GitFetchFailed"

C3_Witness == FetchFailed /\ pc = "done" /\ out[1] = "GitFetchFailed"

ErrorKindOf(tool) ==
    CASE tool = "fetch" -> "GitFetchFailed"
      [] tool = "worktree add" -> "GitWorktreeAddFailed"
      [] tool = "am" -> "GitAMFailed"

\* C4: the error kind setup() raises identifies the failing step: fetch ->
\* GitFetchFailed, worktree add -> GitWorktreeAddFailed, am -> GitAMFailed,
\* three kinds that differ pairwise.
C4_ErrorKindIdentifiesStep ==
    (/\ pc = "except"
     /\ dispatched = <<>>
     /\ calls # <<>>
     /\ Last(calls).tool \in {"fetch", "worktree add", "am"})
        => exc = ErrorKindOf(Last(calls).tool)

Persistent == {p \in Calls : env[p] # "none"}

Returned == {p \in Persistent : cpc[p] = "done"}

Preexisting(r) == {d \in dirs : d[1] = r} \ UNION {made[q] : q \in Calls}

Sequential(p) ==
    \A q \in Persistent \ {p} :
        env[q] = env[p] => (cpc[q] = "start" \/ q \in before[p] \/ p \in before[q])

\* C5: of the calls of create_cache_directory with one name under a
\* persistent cache root, each returns a directory it created itself, no two
\* return the same path, and a call that overlaps no other call on a root
\* that was empty at first returns counter k (k = 0: <name>, k = 1:
\* <name>-1) when k calls returned before it.
C5_CacheDirsDistinct ==
    /\ \A p \in Returned : result[p] \in made[p] /\ result[p] \in dirs
    /\ \A p, q \in Returned : p # q => result[p] # result[q]
    /\ \A p \in Returned :
          (Sequential(p) /\ Preexisting(Root(env[p])) = {}) =>
              result[p] = cache_home(env[p],
                  Cardinality({q \in before[p] : env[q] = env[p]}))

C5_Witness ==
    /\ Returned = Calls
    /\ \A p \in Calls : env[p] = "xdg" /\ before[p] = {}
    /\ \E p, q \in Calls : result[p] = <<"xdg", 0>> /\ result[q] = <<"xdg", 1>>

PushFailedAt(i) ==
    calls[i].tool = "push" /\ calls[i].raised = "none" /\ calls[i].returncode # 0

HubFailedAt(i) ==
    calls[i].tool = "hub" /\ calls[i].raised = "none" /\ calls[i].returncode # 0

\* pr() has just returned to the command loop without raising.
SessionUsable ==
    /\ pc = "loop"
    /\ exc = "none"
    /\ cleanups = 0
    /\ scratch
    /\ worktree

\* C6: when the force-push of pr() exits non-zero, hub pull-request is not
\* invoked, pr() returns without raising and the session stays usable (the
\* loop reads the next command, cleanup has not run); likewise when hub
\* pull-request exits non-zero.
C6_SoftPushAndPRFailure ==
    \A i \in 1..Len(calls) :
        /\ PushFailedAt(i) =>
              /\ i < Len(calls) => calls[i + 1].tool # "hub"
              /\ (i = Len(calls) /\ Last(dispatched) = "pr") =>
                    SessionUsable /\ Last(out) = "Failed to push?!"
        /\ (HubFailedAt(i) /\ i = Len(calls) /\ Last(dispatched) = "pr") =>
              SessionUsable /\ Last(out) = "Failed to open PR"

C6_Witness ==
    /\ Len(calls) = 7
    /\ PushFailedAt(6)
    /\ calls[7].tool = "nix-instantiate"
    /\ dispatched = <<"pr", "eval">>
    /\ pc = "loop"

\* C7: a command is dispatched, and the loop is entered, only after fetch,
\* branch -f, worktree add and am all succeeded.
C7_LoopOnlyAfterSetup ==
    (dispatched # <<>> \/ pc \in {"loop", "pr_push", "pr_hub"}) => SetupCompleted

C7_Witness ==
    /\ SetupRaised
    /\ Last(calls).tool = "worktree add"
    /\ pc = "except"
    /\ dispatched = <<>>

\* C8 as stated: when setup() raised, main() always ends by printing "all
\* done" and exiting with status zero.
C8_AlwaysAllDone ==
    (SetupRaised /\ pc \in Terminal) =>
        pc = "done" /\ status = "zero" /\ Last(out) = "all done"

\* C8, amended: when setup() raised, main() catches and prints the error and
\* runs cleanup; it then prints "all done" and exits zero exactly when both
\* cleanup steps succeeded, and when rmtree or worktree prune raises, that
\* error leaves main() with "all done" unprinted and a non-zero status.
C8_AllDoneUnlessCleanupRaises ==
    SetupRaised =>
        /\ pc # "except" =>
              /\ out # <<>>
              /\ out[1] \in {"GitFetchFailed", "GitAMFailed",
                             "CalledProcessError", "OSError"}
        /\ CleanupSucceeded => pc \in {"alldone", "done"}
        /\ pc = "done" =>
              CleanupSucceeded /\ status = "zero" /\ Last(out) = "all done"
        /\ pc = "raised" =>
              /\ ~CleanupSucceeded
              /\ status = "nonzero"
              /\ Last(out) # "all done"
              /\ exc \in {"OSError", "CalledProcessError"}

C8_Witness ==
    /\ SetupRaised
    /\ pc = "done"
    /\ out = <<"GitAMFailed", "all done">>
    /\ status = "zero"

CleanupStepKeepsRefs ==
    pc \in {"exit", "rmtree", "prune"} => (baseRef' = baseRef /\ branch' = branch)

\* C9: cleanup() leaves the branch ml2pr/<slug> and the ref
\* refs/base-ml2pr/<slug> as they are: no step of cleanup changes what they
\* point at, and once setup() created them they exist after cleanup.
C9_CleanupKeepsRefs ==
    /\ [][CleanupStepKeepsRefs]_vars
    /\ []((/\ cleanups = 1
            /\ Len(calls) >= 2
            /\ calls[2].tool = "branch"
            /\ Succeeded(calls[2])) =>
            (baseRef # <<>> /\ branch # <<>> /\ branch[1] = baseRef[1]))

C9_Witness ==
    /\ pc = "done"
    /\ SetupCompleted
    /\ branch = Append(baseRef, "patch")
    /\ ~scratch
    /\ ~registered

\* C10: the slug holds only characters of [0-9A-Za-z.] and hyphens, no two
\* hyphens in a row, and no hyphen at its start or end.
C10_SlugShape ==
    spc = "slug" =>
        /\ \A i \in 1..Len(slug) : slug[i] \in Allowed \cup {"-"}
        /\ \A i \in 1..(Len(slug) - 1) : ~(slug[i] = "-" /\ slug[i + 1] = "-")
        /\ slug # <<>> => (slug[1] # "-" /\ Last(slug) # "-")

C10_Witness ==
    /\ spc = "slug"
    /\ subject = <<"-", ":", "a", " ">>
    /\ slug = <<"a">>

ReplyPrefix == <<"R", "e", ":", " ">>

OnlyAllowed(s) == \A i \in 1..Len(s) : s[i] \in Allowed

\* C11: a subject made only of characters of [0-9A-Za-z.] (so it starts with
\* no "Re:"/"re:" token and no bracketed tag) is its own slug.
C11_PlainSubjectIsItsSlug ==
    (spc = "slug" /\ OnlyAllowed(subject)) => slug = subject

\* C12: one leading reply token is stripped and nothing else: the slug of
\* "Re: " + s is the slug of s, and for s made of letters, digits and dots it
\* is s itself, no leading letter of s removed.
C12_ReplyTokenOnly ==
    spc = "slug" =>
        /\ slugify_subject(ReplyPrefix \o subject) = slug
        /\ OnlyAllowed(subject) =>
              slugify_subject(ReplyPrefix \o subject) = subject

\* C13: the slug is non-empty for every subject that is non-empty, not
\* whitespace only, and holds a character of [0-9A-Za-z.].
C13_SlugNonEmpty ==
    (/\ spc = "slug"
     /\ subject # <<>>
     /\ strip(subject) # <<>>
     /\ \E i \in 1..Len(subject) : subject[i] \in Allowed)
        => slug # <<>>

\* C14: slugify_subject is idempotent: the slug of a slug is that slug.
C14_Idempotent ==
    spc = "slug" => slugify_subject(slug) = slug

\* setup() has not run its worktree-add step yet
BeforeWorktreeAdd == constructed /\ pc \in {"fetch", "branch", "wtadd"}

\* C15 as stated: before the worktree-add step the scratch directory exists
\* and worktreePath does not; git worktree add brings it into existence.
C15_WorktreePathNotPrecreated ==
    BeforeWorktreeAdd => (scratch /\ ~worktree)

\* C15, amended: the constructor creates worktreePath itself
\* (self.worktree.mkdir()), so in every state after construction and before
\* the worktree-add step both the scratch directory and the (empty, not yet
\* registered) worktreePath exist; git worktree add only registers and
\* fills it.
C15_WorktreePathPrecreated ==
    BeforeWorktreeAdd => (scratch /\ worktree /\ ~registered)

C15_Witness ==
    /\ pc = "wtadd"
    /\ worktree
    /\ ~registered
    /\ Len(calls) = 2

\* C16 as stated: the force-push is the first tool pr() invokes; the commit
\* log is read only after the push succeeded, so a failing log cannot end
\* pr() before the push was attempted.
C16_PushBeforeLog ==
    prCalls # <<>> =>
        /\ prCalls[1].tool = "push"
        /\ \A i \in 1..Len(prCalls) :
              prCalls[i].tool = "log" => (i > 1 /\ Succeeded(prCalls[i - 1]))

\* C16, amended: the commit log (git log, check=True) is the first tool
\* pr() invokes and the force-push the second: the push is attempted only
\* after log() succeeded, and a failing log makes pr() raise before any push
\* is attempted.
C16_LogBeforePush ==
    prCalls # <<>> =>
        /\ prCalls[1].tool = "log"
        /\ \A i \in 2..Len(prCalls) : prCalls[i].tool # "log"
        /\ Len(prCalls) >= 2 =>
              (prCalls[2].tool = "push" /\ Succeeded(prCalls[1]))
        /\ ~Succeeded(prCalls[1]) =>
              /\ Len(prCalls) = 1
              /\ Last(dispatched) = "pr"
              /\ pc \notin {"loop", "pr_push", "pr_hub"}
              /\ pc = "except" => exc \in {"CalledProcessError", "OSError"}

C16_Witness ==
    /\ Len(prCalls) = 1
    /\ ~Succeeded(prCalls[1])
    /\ pc = "done"
    /\ out = <<"CalledProcessError", "all done">>

PruneInvoked == \E i \in 1..Len(calls) : calls[i].tool = "worktree prune"

\* C17: cleanup() removes the scratch directory before it prunes: prune is
\* invoked only once the directory is gone, not at all when the removal
\* raised, and when cleanup() has returned normally neither the scratch
\* directory, nor worktreePath, nor a worktree registration for it is left.
C17_RemoveThenPrune ==
    /\ PruneInvoked => (~scratch /\ ~worktree)
    /\ (cleanups = 1 /\ scratch /\ pc = "raised") => ~PruneInvoked
    /\ CleanupSucceeded => (~scratch /\ ~worktree /\ ~registered)

C17_Witness ==
    /\ CleanupSucceeded
    /\ SetupCompleted
    /\ dispatched = <<"shell", "EOF">>
    /\ pc = "alldone"

LoopPcs == {"loop", "pr_push", "pr_hub"}

LoopEnded == SetupCompleted /\ pc \notin LoopPcs

QuitRead == dispatched # <<>> /\ Last(dispatched) \in {"quit", "EOF"}

\* a Worktree operation invoked by a dispatched command raised
OperationRaised ==
    \E i \in (Len(SetupOrder) + 1)..Len(calls) :
        calls[i].tool # "worktree prune" /\ calls[i].raised # "none"

ShellExitedNonZero ==
    /\ dispatched # <<>> /\ Last(dispatched) = "shell"
    /\ calls # <<>> /\ Last(calls).tool = "bash"
    /\ Last(calls).raised = "none" /\ Last(calls).returncode # 0

LoopEndsWhenItShould ==
    /\ LoopEnded => (QuitRead /\ ~OperationRaised) \/ (~QuitRead /\ OperationRaised)
    /\ (SetupCompleted /\ pc \in LoopPcs) => (~QuitRead /\ ~OperationRaised)
    /\ ShellExitedNonZero => (pc = "loop" /\ exc = "none")
    /\ \A i \in 1..Len(calls) :
          calls[i].tool = "bash" => calls[i].raised # "CalledProcessError"

OnlyCleanupAfterLoop ==
    LoopEnded =>
        /\ dispatched' = dispatched
        /\ prCalls' = prCalls
        /\ \/ calls' = calls
           \/ /\ Len(calls') = Len(calls) + 1
              /\ SubSeq(calls', 1, Len(calls)) = calls
              /\ Last(calls').tool = "worktree prune"

\* C19: once setup() has completed the command loop has ended exactly when
\* quit or end-of-input was read or a dispatched operation raised; a bash
\* that exits non-zero raises nothing and leaves the loop reading commands;
\* after the loop has ended no command is dispatched and the only tool
\* invoked is the worktree prune of cleanup().
C19_LoopEnds == []LoopEndsWhenItShould /\ [][OnlyCleanupAfterLoop]_vars

C19_Witness ==
    /\ ShellExitedNonZero
    /\ pc = "loop"
    /\ Len(dispatched) = 2
    /\ SetupCompleted

\* git log refs/base-<branch_name>..<branch_name>: the commits reachable
\* from the branch and not from the base ref
Range(base, br) == {br[i] : i \in 1..Len(br)} \ {base[i] : i \in 1..Len(base)}

\* setup() has succeeded and cleanup has not begun: the loop can call log()
Ready == SetupCompleted /\ pc \in LoopPcs

OtherFetched == ocalls # <<>> /\ Succeeded(ocalls[1])

\* C18 as stated: whenever this session is set up and not yet cleaned up,
\* the range log() reports is exactly the commit of this session's patch,
\* whatever steps of the other session have been interleaved.
C18_RangeIsThePatch == Ready => Range(baseRef, branch) = {"patch"}

\* C18, amended: whenever this session is set up and not yet cleaned up
\* and the fetch of the other session has not succeeded, the range log()
\* reports is exactly the commit of this session's patch.
C18_RangeIsThePatchUnlessOtherFetched ==
    (Ready /\ ~OtherFetched) => Range(baseRef, branch) = {"patch"}

C18_Witness ==
    /\ Ready
    /\ Len(ocalls) = 1 /\ ocalls[1].tool = "fetch" /\ ~Succeeded(ocalls[1])
    /\ dispatched = <<"log">>
    /\ Succeeded(Last(calls))
    /\ Range(baseRef, branch) = {"patch"}

====
